---- MODULE Spec2Model ----
(***************************************************************************)
(* Node lifecycle orchestrators of pf9ctl: DecommissionNode                *)
(* (pkg/pmk/decomissionNode.go), PrepNode (pkg/pmk/node.go) and            *)
(* attachNodeRun (cmd/attachNode.go).  One run of one orchestrator is a    *)
(* sequential program; pc is its position, calls is the trace of the       *)
(* commands and control-plane calls it has issued, and the outcome of      *)
(* every command / call is an input drawn when the step executes.          *)
(***************************************************************************)
EXTENDS Integers, Sequences, FiniteSets, TLC

(* ---------- bounds ---------- *)
MaxExitCode == 7     \* largest exit code of the installer script
MaxHostIDs == 2      \* host ids Resmgr.GetHostId may return for one IP
MaxIPs == 2          \* --master-ip / --worker-ip values per role group
NumPf9Packages == 2  \* length of util.Pf9Packages
NumFiles == 2        \* length of util.Files

(* ---------- program constants ---------- *)
HostAgentCertless == 200
HostAgentLegacy == 404
DecommissionSleep == 50

VARIABLES
  prog,              \* which orchestrator this run executes
  pc,                \* position in that orchestrator
  exit,              \* "running" | "ok" | "error" | "fatal" | "panic"
  msg,               \* message printed / returned when the run ended
  calls,             \* trace of commands and API calls, in issue order
  auth,              \* keystone.KeystoneAuth {Token, ProjectID}
  hostOS,            \* result of ValidatePlatform
  removePf9,         \* DecommissionNode argument
  hostID,            \* DecommissionNode: result of Resmgr.GetHostId
  nodeInfo,          \* DecommissionNode: qbert.Node {ClusterName, ClusterUuid}
  nodeConnectedToDU, \* DecommissionNode local
  idx,               \* loop index inside removeHostagent
  SkipKube,          \* util.SkipKube
  IsRemoteExecutor,  \* node.go:25
  ctx,               \* objects.Config {MfaToken, ProxyURL, AllowInsecure} as set / unset
  dpkgResult,        \* PrepNode: result of CheckIfdpkgISLock
  defers,            \* PrepNode: stack of deferred calls
  HostAgent,         \* node.go:24, status code of the discovery probe
  homeDir,           \* node.go:26, package level home directory
  localHome,         \* homeDir local of the installer function
  variant,           \* installer function entered: "certless" | "legacy" | "none"
  installErr,        \* exit code of the installer script, 0 when it succeeded
  installCmd,        \* command line the installer script was invoked with
  output,            \* PrepNode: trimmed content of host_id.conf
  ret,               \* PrepNode: value being returned while the defers run
  masterIPs,         \* attachNode.go:20
  workerIPs,         \* attachNode.go:21
  master_hostIds,    \* attachNodeRun local
  worker_hostIds,    \* attachNodeRun local
  cluster_uuid,      \* attachNodeRun local
  clusterStatus      \* attachNodeRun local

decVars == <<removePf9, hostID, nodeInfo, nodeConnectedToDU, idx>>
prepVars == <<SkipKube, IsRemoteExecutor, ctx, dpkgResult, defers, HostAgent,
              homeDir, localHome, variant, installErr, installCmd, output, ret>>
attVars == <<masterIPs, workerIPs, master_hostIds, worker_hostIds, cluster_uuid,
             clusterStatus>>
vars == <<prog, pc, exit, msg, calls, auth, hostOS, decVars, prepVars, attVars>>

(* ---------- events ---------- *)
\* op: the command or call; n: its index or numeric argument; err: it
\* failed; s: its string argument or the output it produced
Ev(op) == [op |-> op, n |-> 0, err |-> FALSE, s |-> ""]
EvN(op, k) == [op |-> op, n |-> k, err |-> FALSE, s |-> ""]
EvE(op, e) == [op |-> op, n |-> 0, err |-> e, s |-> ""]
EvNE(op, k, e) == [op |-> op, n |-> k, err |-> e, s |-> ""]
EvS(op, str) == [op |-> op, n |-> 0, err |-> FALSE, s |-> str]
EvSE(op, str, e) == [op |-> op, n |-> 0, err |-> e, s |-> str]
Ops(s) == {s[i].op : i \in 1..Len(s)}
\* index of the first occurrence of op in s, 0 when absent
RECURSIVE FirstAt(_, _, _)
FirstAt(s, op, i) ==
  IF i > Len(s) THEN 0
  ELSE IF s[i].op = op THEN i ELSE FirstAt(s, op, i + 1)
First(s, op) == FirstAt(s, op, 1)
Count(s, op) == Cardinality({i \in 1..Len(s) : s[i].op = op})

(* ---------- keystone ---------- *)
NoAuth == [Token |-> "", ProjectID |-> ""]
GoodAuth == [Token |-> "tok", ProjectID |-> "proj"]

(* ---------- platform detection (node.go) ---------- *)
Centos == "centos"
Redhat == "red hat"
Ubuntu == "ubuntu"
CentOSVersion == "redhat"
DebianVersion == "debian"
\* contents of /etc/os-release, as the set of family words it contains
RawMarkers == {"CentOS", "Red Hat", "Ubuntu", "ubuntu", "SLES"}
ToLower(w) ==
  CASE w = "CentOS" -> "centos"
    [] w = "Red Hat" -> "red hat"
    [] w = "Ubuntu" -> "ubuntu"
    [] w = "SLES" -> "sles"
    [] OTHER -> w
OpenOSReleaseFile(readErr, raw) ==
  IF readErr THEN [data |-> {}, err |-> TRUE]
  ELSE [data |-> {ToLower(w) : w \in raw}, err |-> FALSE]
ValidatePlatform(readErr, raw, versionErr) ==
  LET f == OpenOSReleaseFile(readErr, raw) IN
  IF f.err THEN [os |-> "", err |-> TRUE, family |-> "unreadable"]
  ELSE IF Centos \in f.data \/ Redhat \in f.data
       THEN (IF ~versionErr
             THEN [os |-> CentOSVersion, err |-> FALSE, family |-> "redhat"]
             ELSE [os |-> "", err |-> FALSE, family |-> "redhat"])
  ELSE IF Ubuntu \in f.data
       THEN (IF ~versionErr
             THEN [os |-> DebianVersion, err |-> FALSE, family |-> "debian"]
             ELSE [os |-> "", err |-> FALSE, family |-> "debian"])
  ELSE [os |-> "", err |-> FALSE, family |-> "none"]
OSReleaseInputs == {{}, {"CentOS"}, {"Red Hat"}, {"Ubuntu"}, {"ubuntu"},
                    {"SLES"}, {"CentOS", "Ubuntu"}}

(* ---------- run termination ---------- *)
Fatalf(m) == pc' = "done" /\ exit' = "fatal" /\ msg' = m
Finish(m) == pc' = "done" /\ exit' = "ok" /\ msg' = m
Goto(p) == pc' = p /\ UNCHANGED <<exit, msg>>

(***************************************************************************)
(* DecommissionNode                                                        *)
(***************************************************************************)
services == <<"pf9-hostagent", "pf9-nodeletd", "pf9-kubelet">>
HostIDs == {<<>>} \cup {[i \in 1..k |-> "host"] : k \in 1..MaxHostIDs}
NodeInfos == {[ClusterName |-> "", ClusterUuid |-> ""],
              [ClusterName |-> "c1", ClusterUuid |-> "uuid1"]}
NoNode == [ClusterName |-> "", ClusterUuid |-> ""]

\* decomissionNode.go:69-73
DecGetExecutor ==
  /\ prog = "decommission" /\ pc = "d_executor"
  /\ \E err \in BOOLEAN :
       IF err THEN Fatalf("Unable to create executor") ELSE Goto("d_client")
  /\ UNCHANGED <<attVars, prog, calls, auth, hostOS, decVars, prepVars>>

\* decomissionNode.go:74-77
DecNewClient ==
  /\ prog = "decommission" /\ pc = "d_client"
  /\ \E err \in BOOLEAN :
       IF err THEN Fatalf("Unable to create client") ELSE Goto("d_auth")
  /\ UNCHANGED <<attVars, prog, calls, auth, hostOS, decVars, prepVars>>

\* decomissionNode.go:78-81: a GetAuth error is only logged
DecGetAuth_FatalOnError ==
  /\ prog = "decommission" /\ pc = "d_auth"
  /\ \E err \in BOOLEAN :
       /\ auth' = (IF err THEN NoAuth ELSE GoodAuth)
       /\ calls' = Append(calls, EvE("GetAuth", err))
       /\ IF err THEN Fatalf("Failed to get keystone") ELSE Goto("d_ip")
  /\ UNCHANGED <<attVars, prog, hostOS, decVars, prepVars>>
DecGetAuth ==
  /\ prog = "decommission" /\ pc = "d_auth"
  /\ \E err \in BOOLEAN :
       /\ auth' = (IF err THEN NoAuth ELSE GoodAuth)
       /\ calls' = Append(calls, EvE("GetAuth", err))
  /\ Goto("d_ip")
  /\ UNCHANGED <<attVars, prog, hostOS, decVars, prepVars>>

\* decomissionNode.go:83-89
DecHostIP ==
  /\ prog = "decommission" /\ pc = "d_ip"
  /\ \E err \in BOOLEAN :
       /\ calls' = Append(calls, EvE("hostname -I", err))
       /\ IF err THEN Fatalf("ERROR : unable to get host ip") ELSE Goto("d_platform")
  /\ UNCHANGED <<attVars, prog, auth, hostOS, decVars, prepVars>>

\* decomissionNode.go:90-93
DecValidatePlatform ==
  /\ prog = "decommission" /\ pc = "d_platform"
  /\ \E readErr \in BOOLEAN, raw \in OSReleaseInputs, versionErr \in BOOLEAN :
       LET r == ValidatePlatform(readErr, raw, versionErr) IN
       /\ calls' = Append(calls, EvSE("ValidatePlatform", r.family, r.err))
       /\ IF r.err
          THEN Fatalf("Error getting OS version") /\ UNCHANGED hostOS
          ELSE Goto("d_hostid") /\ hostOS' = r.os
  /\ UNCHANGED <<attVars, prog, auth, decVars, prepVars>>

\* decomissionNode.go:94-96
DecGetHostId ==
  /\ prog = "decommission" /\ pc = "d_hostid"
  /\ calls' = Append(calls, Ev("GetHostId"))
  /\ \E ids \in HostIDs : hostID' = ids
  /\ Goto("d_presence")
  /\ UNCHANGED <<attVars, prog, auth, hostOS, removePf9, nodeInfo, nodeConnectedToDU, idx, prepVars>>

\* decomissionNode.go:98-103 and 160-162: where the run goes after the
\* package query
AfterPresence_IgnoreError(err) == "d_nodeinfo"
AfterPresence(err) == IF err THEN "done" ELSE "d_nodeinfo"
PresenceCmd(os) == IF os = "debian" THEN "dpkg -s pf9-hostagent"
                   ELSE "yum list installed pf9-hostagent"
DecPresence_Redetect ==
  /\ prog = "decommission" /\ pc = "d_presence"
  /\ \E err \in BOOLEAN, readErr \in BOOLEAN, raw \in OSReleaseInputs :
       LET r == ValidatePlatform(readErr, raw, FALSE) IN
       /\ calls' = calls \o <<EvSE("ValidatePlatform", r.family, r.err),
                               EvE(PresenceCmd(r.os), err)>>
       /\ IF AfterPresence(err) = "done"
          THEN Finish("Host is not connected to Platform9 Management Plane")
          ELSE Goto(AfterPresence(err))
  /\ UNCHANGED <<attVars, prog, auth, hostOS, decVars, prepVars>>
DecPresence ==
  /\ prog = "decommission" /\ pc = "d_presence"
  /\ \E err \in BOOLEAN :
       /\ calls' = Append(calls, EvE(PresenceCmd(hostOS), err))
       /\ IF AfterPresence(err) = "done"
          THEN Finish("Host is not connected to Platform9 Management Plane")
          ELSE Goto(AfterPresence(err))
  /\ UNCHANGED <<attVars, prog, auth, hostOS, decVars, prepVars>>

\* decomissionNode.go:112-114 and 132: branch taken after the node info
DecBranch_NoDetach(clusterName, connected) ==
  IF connected THEN "d_deauth" ELSE "d_remove"
DecBranch_AlwaysDeauth(clusterName, connected) ==
  IF clusterName = "" THEN "d_deauth" ELSE "d_detach"
DecBranch(clusterName, connected) ==
  IF clusterName = ""
  THEN (IF connected THEN "d_deauth" ELSE "d_remove")
  ELSE "d_detach"

\* decomissionNode.go:105-110
DecNodeInfo_Unguarded ==
  /\ prog = "decommission" /\ pc = "d_nodeinfo"
  /\ nodeConnectedToDU' = (Len(hostID) # 0)
  /\ calls' = Append(calls, Ev("GetNodeInfo"))
  /\ \E ni \in NodeInfos : nodeInfo' = ni
  /\ Goto(DecBranch(nodeInfo'.ClusterName, nodeConnectedToDU'))
  /\ UNCHANGED <<attVars, prog, auth, hostOS, removePf9, hostID, idx, prepVars>>
DecNodeInfo ==
  /\ prog = "decommission" /\ pc = "d_nodeinfo"
  /\ IF Len(hostID) # 0
     THEN /\ nodeConnectedToDU' = TRUE
          /\ calls' = Append(calls, Ev("GetNodeInfo"))
          /\ \E ni \in NodeInfos : nodeInfo' = ni
     ELSE /\ nodeConnectedToDU' = FALSE
          /\ nodeInfo' = NoNode
          /\ UNCHANGED calls
  /\ Goto(DecBranch(nodeInfo'.ClusterName, nodeConnectedToDU'))
  /\ UNCHANGED <<attVars, prog, auth, hostOS, removePf9, hostID, idx, prepVars>>

\* decomissionNode.go:136-141
AfterDetach_IgnoreError(err) == "d_deauth"
AfterDetach(err) == IF err THEN "fatal" ELSE "d_deauth"
DecDetachNode ==
  /\ prog = "decommission" /\ pc = "d_detach"
  /\ \E err \in BOOLEAN :
       /\ calls' = Append(calls, EvNE("DetachNode", Len(hostID), err))
       /\ IF AfterDetach(err) = "fatal"
          THEN Fatalf("Failed to detach host from cluster")
          ELSE Goto(AfterDetach(err))
  /\ UNCHANGED <<attVars, prog, auth, hostOS, decVars, prepVars>>

\* decomissionNode.go:115-120 and 145-150
AfterDeauth_IgnoreError(err) == "d_remove"
AfterDeauth(err) == IF err THEN "fatal" ELSE "d_remove"
DecDeauthoriseNode ==
  /\ prog = "decommission" /\ pc = "d_deauth"
  /\ \E err \in BOOLEAN :
       /\ calls' = Append(calls, EvNE("DeauthoriseNode", Len(hostID), err))
       /\ IF AfterDeauth(err) = "fatal"
          THEN Fatalf("Failed to deauthorize node")
          ELSE Goto(AfterDeauth(err))
  /\ UNCHANGED <<attVars, prog, auth, hostOS, decVars, prepVars>>

\* decomissionNode.go:33-39: one iteration of the stop loop; a failed stop
\* is only logged
RemoveStopService_AbortOnError ==
  /\ prog = "decommission" /\ pc = "d_remove"
  /\ idx <= Len(services)
  /\ \E err \in BOOLEAN :
       /\ calls' = Append(calls, EvNE("systemctl stop", idx, err))
       /\ Goto(IF err THEN "d_sleep"
               ELSE IF idx = Len(services) THEN "d_purge" ELSE "d_remove")
  /\ idx' = idx + 1
  /\ UNCHANGED <<attVars, prog, auth, hostOS, removePf9, hostID, nodeInfo, nodeConnectedToDU, prepVars>>
RemoveStopService ==
  /\ prog = "decommission" /\ pc = "d_remove"
  /\ idx <= Len(services)
  /\ \E err \in BOOLEAN : calls' = Append(calls, EvNE("systemctl stop", idx, err))
  /\ idx' = idx + 1
  /\ Goto(IF idx = Len(services) THEN "d_purge" ELSE "d_remove")
  /\ UNCHANGED <<attVars, prog, auth, hostOS, removePf9, hostID, nodeInfo, nodeConnectedToDU, prepVars>>

\* decomissionNode.go:41-52
PurgeCmd(os) == IF os = "debian" THEN "apt-get purge pf9-hostagent"
                ELSE "yum remove pf9-hostagent"
RemovePurge ==
  /\ prog = "decommission" /\ pc = "d_purge"
  /\ \E err \in BOOLEAN : calls' = Append(calls, EvE(PurgeCmd(hostOS), err))
  /\ idx' = 1
  /\ Goto(IF NumFiles = 0 THEN "d_rmpf9" ELSE "d_rmfiles")
  /\ UNCHANGED <<attVars, prog, auth, hostOS, removePf9, hostID, nodeInfo, nodeConnectedToDU, prepVars>>

\* decomissionNode.go:53-56: one iteration of the log deletion loop
RemoveFile ==
  /\ prog = "decommission" /\ pc = "d_rmfiles"
  /\ idx <= NumFiles
  /\ calls' = Append(calls, EvN("rm -rf file", idx))
  /\ idx' = idx + 1
  /\ Goto(IF idx = NumFiles THEN "d_rmpf9" ELSE "d_rmfiles")
  /\ UNCHANGED <<attVars, prog, auth, hostOS, removePf9, hostID, nodeInfo, nodeConnectedToDU, prepVars>>

\* decomissionNode.go:16-26 and 127-129 / 154-156
removePf9Installation ==
  <<Ev("rm -rf EtcDir"), Ev("rm -rf OptDir"), Ev("rm -rf HOME/pf9")>>
DecRemovePf9 ==
  /\ prog = "decommission" /\ pc = "d_rmpf9"
  /\ calls' = IF removePf9 THEN calls \o removePf9Installation ELSE calls
  /\ Goto("d_sleep")
  /\ UNCHANGED <<attVars, prog, auth, hostOS, decVars, prepVars>>

\* decomissionNode.go:130-131 / 157-158
DecSleep ==
  /\ prog = "decommission" /\ pc = "d_sleep"
  /\ calls' = Append(calls, EvN("Sleep", DecommissionSleep))
  /\ Finish("Node decommissioning started")
  /\ UNCHANGED <<attVars, prog, auth, hostOS, decVars, prepVars>>

DecommissionNode ==
  \/ DecGetExecutor \/ DecNewClient \/ DecGetAuth \/ DecHostIP
  \/ DecValidatePlatform \/ DecGetHostId \/ DecPresence \/ DecNodeInfo
  \/ DecDetachNode \/ DecDeauthoriseNode
  \/ RemoveStopService \/ RemovePurge \/ RemoveFile
  \/ DecRemovePf9 \/ DecSleep

(***************************************************************************)
(* strings: command output is a sequence of characters; the words below    *)
(* stand for the newline, space and double quote characters                *)
(***************************************************************************)
NL == "NL"
SP == "SP"
QUOTE == "QUOTE"
WhiteSpace == {NL, SP}
RECURSIVE TrimLeft(_, _)
TrimLeft(str, cutset) ==
  IF str # <<>> /\ Head(str) \in cutset THEN TrimLeft(Tail(str), cutset) ELSE str
RECURSIVE TrimRight(_, _)
TrimRight(str, cutset) ==
  IF str # <<>> /\ str[Len(str)] \in cutset
  THEN TrimRight(SubSeq(str, 1, Len(str) - 1), cutset) ELSE str
Trim(str, cutset) == TrimRight(TrimLeft(str, cutset), cutset)
TrimSpace(str) == Trim(str, WhiteSpace)
TrimSuffix(str, c) ==
  IF str # <<>> /\ str[Len(str)] = c THEN SubSeq(str, 1, Len(str) - 1) ELSE str
\* strings.Contains on the outputs of systemctl is-active / is-enabled
Contains(str, sub) ==
  \/ str = sub
  \/ str = "inactive" /\ sub = "active"
  \/ str = "enabled-runtime" /\ sub = "enabled"

(***************************************************************************)
(* PrepNode                                                                *)
(***************************************************************************)
NoRet == [kind |-> "running", msg |-> "", detail |-> ""]
\* a return statement of PrepNode: the deferred calls run before the caller
\* sees the value
ReturnD(kind, m, d) ==
  /\ pc' = "p_defers" /\ ret' = [kind |-> kind, msg |-> m, detail |-> d]
  /\ UNCHANGED <<exit, msg>>
Return(kind, m) == ReturnD(kind, m, "")
\* node.go:35-57
sendSegmentEvent(eventStr, isError) ==
  IF isError THEN <<EvS("SendEvent", eventStr), Ev("Segment.Close")>>
  ELSE <<EvS("SendEvent", eventStr)>>

\* node.go:62-69
PrepStart ==
  /\ prog = "prep" /\ pc = "p_start"
  /\ defers' = Append(defers, "s.Stop")
  /\ calls' = calls \o sendSegmentEvent("Starting prep-node", FALSE)
  /\ Goto("p_platform")
  /\ UNCHANGED <<attVars, prog, auth, hostOS, decVars, SkipKube, IsRemoteExecutor, ctx,
                 dpkgResult, HostAgent, homeDir, localHome, variant, installErr, installCmd,
                 output, ret>>

\* node.go:71-78
PrepValidatePlatform ==
  /\ prog = "prep" /\ pc = "p_platform"
  /\ \E readErr \in BOOLEAN, raw \in OSReleaseInputs, versionErr \in BOOLEAN :
       LET r == ValidatePlatform(readErr, raw, versionErr) IN
       IF r.err
       THEN /\ calls' = Append(calls, EvSE("ValidatePlatform", r.family, TRUE))
                          \o sendSegmentEvent("Error: Invalid host OS.", TRUE)
            /\ Return("error", "Error: Invalid host OS.")
            /\ UNCHANGED hostOS
       ELSE /\ calls' = Append(calls, EvSE("ValidatePlatform", r.family, FALSE))
            /\ hostOS' = r.os
            /\ Goto(IF r.os = "debian" THEN "p_dpkg" ELSE "p_pkgs")
            /\ UNCHANGED ret
  /\ UNCHANGED <<attVars, prog, auth, decVars, SkipKube, IsRemoteExecutor, ctx,
                 dpkgResult, defers, HostAgent, homeDir, localHome, variant,
                 installErr, installCmd, output>>

\* node.go:80-81: the error of the lock check is discarded
PrepCheckDpkgLock ==
  /\ prog = "prep" /\ pc = "p_dpkg"
  /\ \E result \in BOOLEAN :
       /\ dpkgResult' = result
       /\ calls' = Append(calls, EvE("CheckIfdpkgISLock", ~result))
  /\ Goto("p_ua_status")
  /\ UNCHANGED <<attVars, prog, auth, hostOS, decVars, SkipKube, IsRemoteExecutor, ctx,
                 defers, HostAgent, homeDir, localHome, variant, installErr, installCmd,
                 output, ret>>

\* node.go:176-184
IsActiveOutputs == {"active", "inactive", "failed"}
StatusUnattendedUpdates(out) == ~Contains(out, "inactive")
\* node.go:83
PrepStatusUnattended ==
  /\ prog = "prep" /\ pc = "p_ua_status"
  /\ \E out \in IsActiveOutputs :
       /\ calls' = Append(calls, EvSE("systemctl is-active unattended-upgrades",
                                       out, out # "active"))
       /\ Goto(IF StatusUnattendedUpdates(out) THEN "p_ua_stop" ELSE "p_lock")
  /\ UNCHANGED <<attVars, prog, auth, hostOS, decVars, prepVars>>

PrepStopUnattended_NoDefer ==
  /\ prog = "prep" /\ pc = "p_ua_stop"
  /\ calls' = Append(calls, Ev("systemctl stop unattended-upgrades"))
  /\ Goto("p_ua_isenabled")
  /\ UNCHANGED <<attVars, prog, auth, hostOS, decVars, prepVars>>
\* node.go:86-87 and 186-194 (a failing stop is only logged)
PrepStopUnattended ==
  /\ prog = "prep" /\ pc = "p_ua_stop"
  /\ calls' = Append(calls, Ev("systemctl stop unattended-upgrades"))
  /\ defers' = Append(defers, "systemctl start unattended-upgrades")
  /\ Goto("p_ua_isenabled")
  /\ UNCHANGED <<attVars, prog, auth, hostOS, decVars, SkipKube, IsRemoteExecutor, ctx,
                 dpkgResult, HostAgent, homeDir, localHome, variant, installErr, installCmd,
                 output, ret>>

\* node.go:206-214
IsEnabledOutputs == {"enabled", "disabled", "enabled-runtime"}
IsEnabledUnattendedUpdates(out) == Contains(out, "enabled")
\* node.go:89
PrepIsEnabledUnattended ==
  /\ prog = "prep" /\ pc = "p_ua_isenabled"
  /\ \E out \in IsEnabledOutputs :
       /\ calls' = Append(calls, EvSE("systemctl is-enabled unattended-upgrades",
                                       out, ~Contains(out, "enabled")))
       /\ Goto(IF IsEnabledUnattendedUpdates(out) THEN "p_ua_disable" ELSE "p_lock")
  /\ UNCHANGED <<attVars, prog, auth, hostOS, decVars, prepVars>>

\* node.go:90-91 and 216-224 (a failing disable is only logged)
PrepDisableUnattended ==
  /\ prog = "prep" /\ pc = "p_ua_disable"
  /\ calls' = Append(calls, Ev("systemctl disable unattended-upgrades"))
  /\ defers' = Append(defers, "systemctl enable unattended-upgrades")
  /\ Goto("p_lock")
  /\ UNCHANGED <<attVars, prog, auth, hostOS, decVars, SkipKube, IsRemoteExecutor, ctx,
                 dpkgResult, HostAgent, homeDir, localHome, variant, installErr, installCmd,
                 output, ret>>

PrepDpkgLocked_Ignored ==
  /\ prog = "prep" /\ pc = "p_lock"
  /\ Goto("p_pkgs")
  /\ UNCHANGED <<attVars, prog, calls, auth, hostOS, decVars, prepVars>>
\* node.go:95-98
PrepDpkgLocked ==
  /\ prog = "prep" /\ pc = "p_lock"
  /\ IF ~dpkgResult
     THEN Return("error", "Dpkg is under lock")
     ELSE Goto("p_pkgs") /\ UNCHANGED ret
  /\ UNCHANGED <<attVars, prog, calls, auth, hostOS, decVars, SkipKube, IsRemoteExecutor,
                 ctx, dpkgResult, defers, HostAgent, homeDir, localHome, variant,
                 installErr, installCmd, output>>

\* node.go:394-417: outs[i] is what the probe for package i prints
PackageOutputs == {"", "ii pf9-hostagent"}
RECURSIVE FirstNonEmpty(_, _)
FirstNonEmpty(outs, i) ==
  IF i > Len(outs) THEN 0
  ELSE IF outs[i] # "" THEN i ELSE FirstNonEmpty(outs, i + 1)
PackageProbeCmd(os) == IF os = "debian" THEN "dpkg -l | grep" ELSE "yum list installed | grep"
pf9PackagesPresent_LastOnly(os, outs) ==
  [present |-> IF Len(outs) = 0 THEN FALSE ELSE outs[Len(outs)] # "",
   probes |-> [i \in 1..Len(outs) |->
                 [op |-> PackageProbeCmd(os), n |-> i, err |-> FALSE, s |-> outs[i]]]]
pf9PackagesPresent(os, outs) ==
  LET k == FirstNonEmpty(outs, 1)
      probed == IF k # 0 THEN k ELSE Len(outs)
      out == IF probed = 0 THEN "" ELSE outs[probed]
  IN [present |-> IF k # 0 THEN TRUE ELSE ~(out = ""),
      probes |-> [i \in 1..probed |->
                    [op |-> PackageProbeCmd(os), n |-> i, err |-> FALSE, s |-> outs[i]]]]

\* node.go:101-109
AlreadyPresentMsg == "Platform9 packages already present on the host."
PrepPackagesPresent_AfterMkdir ==
  /\ prog = "prep" /\ pc = "p_pkgs"
  /\ \E outs \in [1..NumPf9Packages -> PackageOutputs] :
       LET r == pf9PackagesPresent(hostOS, outs) IN
       IF r.present
       THEN /\ calls' = Append(calls, Ev("mkdir -p pf9")) \o r.probes
                          \o sendSegmentEvent("Error: Platform9 packages already present.", TRUE)
            /\ Return("error", AlreadyPresentMsg)
       ELSE /\ calls' = calls \o r.probes
            /\ Goto("p_fqdn") /\ UNCHANGED ret
  /\ UNCHANGED <<attVars, prog, auth, hostOS, decVars, SkipKube, IsRemoteExecutor, ctx,
                 dpkgResult, defers, HostAgent, homeDir, localHome, variant,
                 installErr, installCmd, output>>
PrepPackagesPresent ==
  /\ prog = "prep" /\ pc = "p_pkgs"
  /\ \E outs \in [1..NumPf9Packages -> PackageOutputs] :
       LET r == pf9PackagesPresent(hostOS, outs) IN
       IF r.present
       THEN /\ calls' = calls \o r.probes
                          \o sendSegmentEvent("Error: Platform9 packages already present.", TRUE)
            /\ Return("error", AlreadyPresentMsg)
       ELSE /\ calls' = calls \o r.probes
            /\ Goto("p_fqdn") /\ UNCHANGED ret
  /\ UNCHANGED <<attVars, prog, auth, hostOS, decVars, SkipKube, IsRemoteExecutor, ctx,
                 dpkgResult, defers, HostAgent, homeDir, localHome, variant,
                 installErr, installCmd, output>>

\* the deferred calls of PrepNode run last in, first out (node.go:67, 87, 91);
\* their failures are only logged (node.go:196-204, 226-234)
PrepRunDefers ==
  /\ prog = "prep" /\ pc = "p_defers"
  /\ IF defers # <<>>
     THEN /\ calls' = Append(calls, Ev(defers[Len(defers)]))
          /\ defers' = SubSeq(defers, 1, Len(defers) - 1)
          /\ Goto("p_defers")
     ELSE /\ pc' = "done" /\ exit' = ret.kind /\ msg' = ret.msg
          /\ UNCHANGED <<calls, defers>>
  /\ UNCHANGED <<attVars, prog, auth, hostOS, decVars, SkipKube, IsRemoteExecutor, ctx,
                 dpkgResult, HostAgent, homeDir, localHome, variant, installErr, installCmd,
                 output, ret>>

(***************************************************************************)
(* installHostAgent and the two installer functions                        *)
(***************************************************************************)
\* node.go:113-117: PrepNode returns the error of installHostAgent
InstallReturn(evs, detail) ==
  /\ calls' = calls \o evs \o sendSegmentEvent("Error: Unable to install hostagent.", TRUE)
  /\ ReturnD("error", "Error: Unable to install hostagent.", detail)

\* node.go:111-112 and 239-242
PrepFetchRegionFQDN ==
  /\ prog = "prep" /\ pc = "p_fqdn"
  /\ \E err \in BOOLEAN :
       LET evs == sendSegmentEvent("Installing hostagent - 2", FALSE)
                    \o <<EvE("FetchRegionFQDN", err)>> IN
       IF err THEN InstallReturn(evs, "Unable to fetch URL")
       ELSE calls' = calls \o evs /\ Goto("p_probe") /\ UNCHANGED ret
  /\ UNCHANGED <<attVars, prog, auth, hostOS, decVars, SkipKube, IsRemoteExecutor, ctx,
                 dpkgResult, defers, HostAgent, homeDir, localHome, variant,
                 installErr, installCmd, output>>

\* node.go:256-263
InstallerFor_DefaultCertless(status) ==
  CASE status = 404 -> "legacy"
    [] OTHER -> "certless"
InstallerFor(status) ==
  CASE status = 404 -> "legacy"
    [] status = 200 -> "certless"
    [] OTHER -> "none"
StatusCodes == {200, 404, 403, 500}
\* node.go:244-263
PrepDiscoveryProbe ==
  /\ prog = "prep" /\ pc = "p_probe"
  /\ \/ \E e \in {"Unable to create a http request", "Unable to send a request"} :
          /\ InstallReturn(<<EvSE("GET platform9-install", e, TRUE)>>, e)
          /\ UNCHANGED <<HostAgent, variant>>
     \/ \E status \in StatusCodes :
          /\ HostAgent' = status
          /\ variant' = InstallerFor(status)
          /\ IF InstallerFor(status) = "none"
             THEN InstallReturn(<<EvN("GET platform9-install", status)>>,
                                "Invalid status code when identifiying hostagent type")
             ELSE /\ calls' = Append(calls, EvN("GET platform9-install", status))
                  /\ Goto("i_home") /\ UNCHANGED ret
  /\ UNCHANGED <<attVars, prog, auth, hostOS, decVars, SkipKube, IsRemoteExecutor, ctx,
                 dpkgResult, defers, homeDir, localHome, installErr, installCmd,
                 output>>

\* node.go:478-493: the package level homeDir is assigned before the error
\* is looked at; a failing mkdir is only logged
HomeOutputs == {<<"/root", NL>>, <<QUOTE, "/home/u", QUOTE, NL>>, <<SP, "/root", SP, NL>>}
createDirToDownloadInstaller(raw, err) ==
  LET h == TrimSpace(Trim(raw, {NL, QUOTE})) IN
  [global |-> h, dir |-> IF err THEN <<>> ELSE h, err |-> err]
\* node.go:277-280 and 424-427
InstCreateDir ==
  /\ prog = "prep" /\ pc = "i_home"
  /\ \E raw \in HomeOutputs, err \in BOOLEAN :
       LET r == createDirToDownloadInstaller(raw, err) IN
       /\ homeDir' = r.global
       /\ localHome' = r.dir
       /\ IF r.err
          THEN InstallReturn(<<EvE("echo $HOME", TRUE)>>, "echo $HOME failed")
          ELSE /\ calls' = calls \o <<Ev("echo $HOME"), Ev("mkdir -p pf9")>>
               /\ Goto("i_curl") /\ UNCHANGED ret
  /\ UNCHANGED <<attVars, prog, auth, hostOS, decVars, SkipKube, IsRemoteExecutor, ctx,
                 dpkgResult, defers, HostAgent, variant, installErr, installCmd,
                 output>>

\* node.go:269-275, 282 and 422, 431
DownloadCmd(v, c) ==
  IF v = "certless"
  THEN (IF c.AllowInsecure THEN "curl -k clarity/platform9-install"
        ELSE "curl clarity/platform9-install")
  ELSE "curl --insecure private/platform9-install"
\* node.go:282-287 and 431-437
InstDownload ==
  /\ prog = "prep" /\ pc = "i_curl"
  /\ \E err \in BOOLEAN :
       LET ev == [op |-> "curl -o installer.sh", n |-> 0, err |-> err,
                  s |-> DownloadCmd(variant, ctx)] IN
       IF err THEN InstallReturn(<<ev>>, "download failed")
       ELSE calls' = Append(calls, ev) /\ Goto("i_chmod") /\ UNCHANGED ret
  /\ UNCHANGED <<attVars, prog, auth, hostOS, decVars, SkipKube, IsRemoteExecutor, ctx,
                 dpkgResult, defers, HostAgent, homeDir, localHome, variant,
                 installErr, installCmd, output>>

\* node.go:298-302 and 438-442
InstChmod ==
  /\ prog = "prep" /\ pc = "i_chmod"
  /\ \E err \in BOOLEAN :
       IF err THEN InstallReturn(<<EvE("chmod +x installer.sh", TRUE)>>, "chmod failed")
       ELSE /\ calls' = Append(calls, Ev("chmod +x installer.sh"))
            /\ Goto("i_run") /\ UNCHANGED ret
  /\ UNCHANGED <<attVars, prog, auth, hostOS, decVars, SkipKube, IsRemoteExecutor, ctx,
                 dpkgResult, defers, HostAgent, homeDir, localHome, variant,
                 installErr, installCmd, output>>

\* node.go:289-296, 304-316 and 429, 444-456: the command line handed to the
\* executor
InstallCommand(v, c, remote) ==
  [proxy |-> IF c.ProxyURL THEN "--proxy" ELSE "--no-proxy",
   options |-> IF v = "certless"
               THEN (IF c.MfaToken THEN "--no-project --user-token"
                     ELSE "--no-project --username --password")
               ELSE "--insecure --project-name | tee agent_install",
   argv |-> IF remote THEN "bash installer.sh" ELSE "bash -c installer.sh"]
\* where the installer function goes once the installer script has run
\* (node.go:316-320 and 456-460)
AfterInstaller_CleanupOnSuccess(code) == IF code # 0 THEN "i_result" ELSE "i_cleanup"
AfterInstaller(code) == "i_cleanup"
NoCommand == [proxy |-> "", options |-> "", argv |-> ""]
InstRunInstaller ==
  /\ prog = "prep" /\ pc = "i_run"
  /\ installCmd' = InstallCommand(variant, ctx, IsRemoteExecutor)
  /\ \E code \in 0..MaxExitCode :
       /\ installErr' = code
       /\ calls' = Append(calls, [op |-> "installer.sh", n |-> code,
                                   err |-> code # 0, s |-> variant])
       /\ Goto(AfterInstaller(code))
  /\ UNCHANGED <<attVars, prog, auth, hostOS, decVars, SkipKube, IsRemoteExecutor, ctx,
                 dpkgResult, defers, HostAgent, homeDir, localHome, variant,
                 output, ret>>

\* node.go:333-354: the three removals; a failure is only logged and changes
\* nothing the program looks at
removeTempDirAndInstaller ==
  <<Ev("rm -rf pf9-install-*"), Ev("rm -rf installer.sh"), Ev("rm -rf agent_install")>>
\* node.go:318 and 458
InstCleanup ==
  /\ prog = "prep" /\ pc = "i_cleanup"
  /\ calls' = calls \o removeTempDirAndInstaller
  /\ Goto("i_result")
  /\ UNCHANGED <<attVars, prog, auth, hostOS, decVars, prepVars>>

\* node.go:121-129
InstalledMessage(status) ==
  CASE status = HostAgentCertless -> "Platform9 packages installed successfully"
    [] status = HostAgentLegacy -> "Hostagent installed successfully"
    [] OTHER -> ""
\* util.InstallerErrors: exit code of the installer script -> cause
InstallerErrors ==
  (1 :> "generic failure") @@ (2 :> "connectivity failure") @@
  (3 :> "already installed") @@ (4 :> "unsupported OS") @@
  (5 :> "unsupported proxy") @@ (6 :> "permission denied")
\* node.go:321-325 and 461-465: util.InstallerErrors[exitCode], the index
\* expression of a Go map, which yields the empty string for a missing key
InstallerErrorMessage(exitCode) ==
  IF exitCode \in DOMAIN InstallerErrors THEN InstallerErrors[exitCode] ELSE ""
\* node.go:320-330, 460-470 and 119-134
InstResult ==
  /\ prog = "prep" /\ pc = "i_result"
  /\ IF installErr # 0
     THEN InstallReturn(<<[op |-> "Error :", n |-> installErr, err |-> TRUE,
                           s |-> InstallerErrorMessage(installErr)]>>,
                        "error while running installer script")
     ELSE /\ calls' = calls \o <<EvS("Println", InstalledMessage(HostAgent))>>
                        \o sendSegmentEvent("Initialising host - 3", FALSE)
          /\ Goto("p_hostid") /\ UNCHANGED ret
  /\ UNCHANGED <<attVars, prog, auth, hostOS, decVars, SkipKube, IsRemoteExecutor, ctx,
                 dpkgResult, defers, HostAgent, homeDir, localHome, variant,
                 installErr, installCmd, output>>

(***************************************************************************)
(* PrepNode after the installation                                         *)
(***************************************************************************)
HostIdOutputs == {<<>>, <<NL>>, <<"h1", NL>>, <<SP, "h1", NL>>}
\* node.go:136-143: err.Error() is evaluated on both sides of the || ; with a
\* nil err it dereferences nil and the goroutine panics, the deferred calls
\* still run
PrepHostId ==
  /\ prog = "prep" /\ pc = "p_hostid"
  /\ \E raw \in HostIdOutputs, err \in BOOLEAN :
       LET out == TrimSpace(raw) IN
       /\ output' = out
       /\ calls' = Append(calls, EvNE("grep host_id /etc/pf9/host_id.conf", Len(out), err)) \o
                   (IF err THEN sendSegmentEvent("Error: Unable to fetch host ID.", TRUE)
                    ELSE <<>>)
       /\ IF err \/ out = <<>>
          THEN (IF err THEN Return("error", "Error: Unable to fetch host ID.")
                ELSE Return("panic", "nil pointer dereference"))
          ELSE Goto("p_skip") /\ UNCHANGED ret
  /\ UNCHANGED <<attVars, prog, auth, hostOS, decVars, SkipKube, IsRemoteExecutor, ctx,
                 dpkgResult, defers, HostAgent, homeDir, localHome, variant,
                 installErr, installCmd>>

PrepSkipKube_Ignored ==
  /\ prog = "prep" /\ pc = "p_skip"
  /\ Goto("p_sleep")
  /\ UNCHANGED <<attVars, prog, calls, auth, hostOS, decVars, prepVars>>
\* node.go:145-152
PrepSkipKube ==
  /\ prog = "prep" /\ pc = "p_skip"
  /\ IF SkipKube
     THEN /\ calls' = calls \o sendSegmentEvent("Successful", FALSE)
          /\ Return("ok", "")
     ELSE /\ Goto("p_sleep") /\ UNCHANGED <<calls, ret>>
  /\ UNCHANGED <<attVars, prog, auth, hostOS, decVars, SkipKube, IsRemoteExecutor, ctx,
                 dpkgResult, defers, HostAgent, homeDir, localHome, variant,
                 installErr, installCmd, output>>

\* node.go:157-158
PrepSleep ==
  /\ prog = "prep" /\ pc = "p_sleep"
  /\ calls' = Append(calls, EvS("Sleep", "ctx.WaitPeriod"))
  /\ Goto("p_authorize")
  /\ UNCHANGED <<attVars, prog, auth, hostOS, decVars, prepVars>>

\* node.go:160-173
PrepAuthorizeHost_IgnoreError ==
  /\ prog = "prep" /\ pc = "p_authorize"
  /\ \E err \in BOOLEAN :
       LET ev == EvNE("AuthorizeHost", Len(TrimSuffix(output, NL)), err) IN
       /\ calls' = Append(calls, ev) \o sendSegmentEvent("Successful", FALSE)
       /\ Return("ok", "")
  /\ UNCHANGED <<attVars, prog, auth, hostOS, decVars, SkipKube, IsRemoteExecutor, ctx,
                 dpkgResult, defers, HostAgent, homeDir, localHome, variant,
                 installErr, installCmd, output>>
PrepAuthorizeHost ==
  /\ prog = "prep" /\ pc = "p_authorize"
  /\ \E err \in BOOLEAN :
       LET ev == EvNE("AuthorizeHost", Len(TrimSuffix(output, NL)), err) IN
       IF err
       THEN /\ calls' = Append(calls, ev) \o sendSegmentEvent("Error: Unable to authorise host.", TRUE)
            /\ Return("error", "Error: Unable to authorise host.")
       ELSE /\ calls' = Append(calls, ev) \o sendSegmentEvent("Successful", FALSE)
            /\ Return("ok", "")
  /\ UNCHANGED <<attVars, prog, auth, hostOS, decVars, SkipKube, IsRemoteExecutor, ctx,
                 dpkgResult, defers, HostAgent, homeDir, localHome, variant,
                 installErr, installCmd, output>>

PrepNode ==
  \/ PrepStart \/ PrepValidatePlatform \/ PrepCheckDpkgLock
  \/ PrepStatusUnattended \/ PrepStopUnattended \/ PrepIsEnabledUnattended
  \/ PrepDisableUnattended \/ PrepDpkgLocked \/ PrepPackagesPresent
  \/ PrepFetchRegionFQDN \/ PrepDiscoveryProbe
  \/ InstCreateDir \/ InstDownload \/ InstChmod \/ InstRunInstaller
  \/ InstCleanup \/ InstResult
  \/ PrepHostId \/ PrepSkipKube \/ PrepSleep \/ PrepAuthorizeHost
  \/ PrepRunDefers

(***************************************************************************)
(* attachNodeRun                                                           *)
(***************************************************************************)
IPLists == {[i \in 1..k |-> "ip"] : k \in 0..MaxIPs}
HostQueryOutputs == {<<>>, <<NL>>, <<"id", NL>>}

\* attachNode.go:56-62
AttachValidateNodeConfig ==
  /\ prog = "attach" /\ pc = "a_config"
  /\ \E remote \in BOOLEAN, valid \in BOOLEAN :
       IF remote /\ ~valid
       THEN Fatalf("Invalid remote node config")
       ELSE Goto("a_load")
  /\ UNCHANGED <<prog, calls, auth, hostOS, decVars, prepVars, attVars>>

\* attachNode.go:64-74
AttachLoadConfig ==
  /\ prog = "attach" /\ pc = "a_load"
  /\ \E err \in BOOLEAN :
       IF err THEN Fatalf("Unable to load the context") ELSE Goto("a_executor")
  /\ UNCHANGED <<prog, calls, auth, hostOS, decVars, prepVars, attVars>>

\* attachNode.go:76-79
AttachGetExecutor ==
  /\ prog = "attach" /\ pc = "a_executor"
  /\ \E err \in BOOLEAN :
       IF err THEN Fatalf("Unable to create executor") ELSE Goto("a_client")
  /\ UNCHANGED <<prog, calls, auth, hostOS, decVars, prepVars, attVars>>

\* attachNode.go:81-86
AttachNewClient ==
  /\ prog = "attach" /\ pc = "a_client"
  /\ \E err \in BOOLEAN :
       IF err THEN Fatalf("Unable to create client") ELSE Goto("a_nodes")
  /\ UNCHANGED <<prog, calls, auth, hostOS, decVars, prepVars, attVars>>

\* attachNode.go:88-90
NoNodesSpecified_WrongTest(masters, workers) == Len(masters) = 0 /\ Len(workers) # 0
NoNodesSpecified(masters, workers) == Len(masters) = 0 /\ Len(workers) = 0
AttachCheckNodes ==
  /\ prog = "attach" /\ pc = "a_nodes"
  /\ IF NoNodesSpecified(masterIPs, workerIPs)
     THEN Fatalf("No nodes were specified to be attached to the cluster")
     ELSE Goto("a_auth")
  /\ UNCHANGED <<prog, calls, auth, hostOS, decVars, prepVars, attVars>>

\* attachNode.go:92-97: a GetAuth error is only logged
AttachGetAuth ==
  /\ prog = "attach" /\ pc = "a_auth"
  /\ \E err \in BOOLEAN :
       /\ auth' = (IF err THEN NoAuth ELSE GoodAuth)
       /\ calls' = Append(calls, EvE("GetAuth", err))
  /\ Goto("a_masters")
  /\ UNCHANGED <<prog, hostOS, decVars, prepVars, attVars>>

\* attachNode.go:161-178: outs[i] is what the query for IPs[i] prints; the
\* loop stops at the first IP without a host id
RECURSIVE hostIdLoop(_, _, _, _)
hostIdLoop(outs, i, hostIdsList, evs) ==
  IF i > Len(outs) THEN [ids |-> hostIdsList, err |-> FALSE, evs |-> evs]
  ELSE LET hostid == TrimSpace(Trim(outs[i], {NL}))
           ev == EvNE("curl resmgr/v1/hosts", i, Len(hostid) = 0)
       IN IF Len(hostid) = 0
          THEN [ids |-> hostIdsList, err |-> TRUE, evs |-> Append(evs, ev)]
          ELSE hostIdLoop(outs, i + 1, Append(hostIdsList, hostid), Append(evs, ev))
hostId(outs) == hostIdLoop(outs, 1, <<>>, <<>>)
\* attachNode.go:105 and 115
AfterHostId_IgnoreError(err, next) == next
AfterHostId(err, next) == IF err THEN "fatal" ELSE next

\* attachNode.go:100-107
AttachMasterHostIds ==
  /\ prog = "attach" /\ pc = "a_masters"
  /\ IF Len(masterIPs) > 0
     THEN \E outs \in [1..Len(masterIPs) -> HostQueryOutputs] :
            LET r == hostId(outs) IN
            /\ calls' = calls \o r.evs
            /\ master_hostIds' = r.ids
            /\ IF AfterHostId(r.err, "a_workers") = "fatal"
               THEN Fatalf("Unable to find host with IP")
               ELSE Goto(AfterHostId(r.err, "a_workers"))
     ELSE Goto("a_workers") /\ UNCHANGED <<calls, master_hostIds>>
  /\ UNCHANGED <<prog, auth, hostOS, decVars, prepVars, masterIPs, workerIPs,
                 worker_hostIds, cluster_uuid, clusterStatus>>

\* attachNode.go:110-117
AttachWorkerHostIds ==
  /\ prog = "attach" /\ pc = "a_workers"
  /\ IF Len(workerIPs) > 0
     THEN \E outs \in [1..Len(workerIPs) -> HostQueryOutputs] :
            LET r == hostId(outs) IN
            /\ calls' = calls \o r.evs
            /\ worker_hostIds' = r.ids
            /\ IF AfterHostId(r.err, "a_cluster") = "fatal"
               THEN Fatalf("Unable to find host with IP")
               ELSE Goto(AfterHostId(r.err, "a_cluster"))
     ELSE Goto("a_cluster") /\ UNCHANGED <<calls, worker_hostIds>>
  /\ UNCHANGED <<prog, auth, hostOS, decVars, prepVars, masterIPs, workerIPs,
                 master_hostIds, cluster_uuid, clusterStatus>>

\* attachNode.go:119: only the uuid of the answer is kept
AttachCheckClusterExists ==
  /\ prog = "attach" /\ pc = "a_cluster"
  /\ \E exists \in BOOLEAN :
       /\ cluster_uuid' = (IF exists THEN "uuid1" ELSE "")
       /\ calls' = Append(calls, EvE("CheckClusterExists", ~exists))
  /\ Goto("a_status")
  /\ UNCHANGED <<prog, auth, hostOS, decVars, prepVars, masterIPs, workerIPs,
                 master_hostIds, worker_hostIds, clusterStatus>>

\* attachNode.go:180-191
ClusterStatusOutputs == {<<QUOTE, "ok", QUOTE, NL>>, <<QUOTE, "pending", QUOTE, NL>>,
                         <<"null", NL>>}
cluster_Status(raw) == TrimSpace(Trim(raw, {NL, QUOTE}))
\* attachNode.go:120-125 and 155-157
AttachClusterStatus ==
  /\ prog = "attach" /\ pc = "a_status"
  /\ \/ /\ calls' = Append(calls, EvE("curl qbert/v3/clusters", TRUE))
        /\ Fatalf("Unable to get cluster status")
        /\ UNCHANGED clusterStatus
     \/ \E raw \in ClusterStatusOutputs :
          /\ clusterStatus' = cluster_Status(raw)
          /\ IF cluster_Status(raw) = <<"ok">>
             THEN /\ calls' = calls \o <<Ev("curl qbert/v3/clusters"),
                                         EvS("SendEvent", "Starting Attach-node")>>
                  /\ Goto("a_attach_workers")
             ELSE /\ calls' = Append(calls, Ev("curl qbert/v3/clusters"))
                  /\ Fatalf("Cluster is not ready")
  /\ UNCHANGED <<prog, auth, hostOS, decVars, prepVars, masterIPs, workerIPs,
                 master_hostIds, worker_hostIds, cluster_uuid>>

\* attachNode.go:126-139 and 141-154: one role group; a failed attach is
\* reported and the run goes on
AttachRole(hostIds, role, err) ==
  IF Len(hostIds) > 0
  THEN <<[op |-> "AttachNode", n |-> Len(hostIds), err |-> err, s |-> role],
         EvS("SendEvent", IF err THEN "Failed to attach node" ELSE "Node attached")>>
  ELSE <<>>

AttachWorkers_AbortOnError ==
  /\ prog = "attach" /\ pc = "a_attach_workers"
  /\ \E err \in (IF Len(worker_hostIds) > 0 THEN BOOLEAN ELSE {FALSE}) :
       /\ calls' = calls \o AttachRole(worker_hostIds, "worker", err)
       /\ IF err THEN Fatalf("Encountered an error while attaching worker node")
          ELSE Goto("a_attach_masters")
  /\ UNCHANGED <<prog, auth, hostOS, decVars, prepVars, attVars>>
\* attachNode.go:126-139
AttachWorkers ==
  /\ prog = "attach" /\ pc = "a_attach_workers"
  /\ \E err \in (IF Len(worker_hostIds) > 0 THEN BOOLEAN ELSE {FALSE}) :
       calls' = calls \o AttachRole(worker_hostIds, "worker", err)
  /\ Goto("a_attach_masters")
  /\ UNCHANGED <<prog, auth, hostOS, decVars, prepVars, attVars>>

\* attachNode.go:141-159 and the deferred Segment.Close of line 86
AttachMasters ==
  /\ prog = "attach" /\ pc = "a_attach_masters"
  /\ \E err \in (IF Len(master_hostIds) > 0 THEN BOOLEAN ELSE {FALSE}) :
       calls' = calls \o AttachRole(master_hostIds, "master", err)
                      \o <<Ev("Segment.Close")>>
  /\ Finish("")
  /\ UNCHANGED <<prog, auth, hostOS, decVars, prepVars, attVars>>

attachNodeRun ==
  \/ AttachValidateNodeConfig \/ AttachLoadConfig \/ AttachGetExecutor
  \/ AttachNewClient \/ AttachCheckNodes \/ AttachGetAuth
  \/ AttachMasterHostIds \/ AttachWorkerHostIds
  \/ AttachCheckClusterExists \/ AttachClusterStatus
  \/ AttachWorkers \/ AttachMasters

(***************************************************************************)
(* Specification                                                           *)
(***************************************************************************)
Progs == {"decommission", "prep", "attach"}
StartPc(p) == CASE p = "decommission" -> "d_executor"
                [] p = "prep" -> "p_start"
                [] p = "attach" -> "a_config"
Configs == [MfaToken : BOOLEAN, ProxyURL : BOOLEAN, AllowInsecure : BOOLEAN]
NoConfig == [MfaToken |-> FALSE, ProxyURL |-> FALSE, AllowInsecure |-> FALSE]

Init ==
  /\ prog \in Progs
  /\ pc = StartPc(prog)
  /\ exit = "running" /\ msg = ""
  /\ calls = <<>>
  /\ auth = NoAuth
  /\ hostOS = ""
  /\ removePf9 \in (IF prog = "decommission" THEN BOOLEAN ELSE {FALSE})
  /\ hostID = <<>>
  /\ nodeInfo = NoNode
  /\ nodeConnectedToDU = FALSE
  /\ idx = 1
  /\ SkipKube \in (IF prog = "prep" THEN BOOLEAN ELSE {FALSE})
  /\ IsRemoteExecutor \in (IF prog = "prep" THEN BOOLEAN ELSE {FALSE})
  /\ ctx \in (IF prog = "prep" THEN Configs ELSE {NoConfig})
  /\ dpkgResult = FALSE
  /\ defers = <<>>
  /\ HostAgent = 0
  /\ homeDir = <<>>
  /\ localHome = <<>>
  /\ variant = "none"
  /\ installErr = 0
  /\ installCmd = NoCommand
  /\ output = <<>>
  /\ ret = NoRet
  /\ masterIPs \in (IF prog = "attach" THEN IPLists ELSE {<<>>})
  /\ workerIPs \in (IF prog = "attach" THEN IPLists ELSE {<<>>})
  /\ master_hostIds = <<>>
  /\ worker_hostIds = <<>>
  /\ cluster_uuid = ""
  /\ clusterStatus = <<>>

Next == DecommissionNode \/ PrepNode \/ attachNodeRun

Spec == Init /\ [][Next]_vars

(***************************************************************************)
(* Properties                                                              *)
(***************************************************************************)
Idx == 1..Len(calls)
RemovalOps == {"systemctl stop", PurgeCmd("debian"), PurgeCmd("redhat"), "rm -rf file"}
LocalPurgeOps == {removePf9Installation[i].op : i \in 1..Len(removePf9Installation)}
PresenceCmds == {PresenceCmd("debian"), PresenceCmd("redhat")}
ControlPlaneOps == {"GetAuth", "GetHostId", "GetNodeInfo", "DetachNode", "DeauthoriseNode"}
\* removeHostagent ran from its first to its last command
RemoveHostagentRan ==
  /\ Count(calls, "systemctl stop") = Len(services)
  /\ Ops(calls) \cap {PurgeCmd("debian"), PurgeCmd("redhat")} # {}
  /\ Count(calls, "rm -rf file") = NumFiles
ClusterMember == prog = "decommission" /\ nodeInfo.ClusterName # ""

\* C1: in a DecommissionNode run on a host whose node info names a cluster,
\* every deauthorize call is preceded by a detach call and every agent
\* removal command (service stop, package purge, log deletion) is preceded
\* by a deauthorize call.
C1_DetachBeforeDeauthBeforeRemoval ==
  ClusterMember =>
    /\ \A i \in Idx : calls[i].op = "DeauthoriseNode" =>
         \E j \in 1..(i - 1) : calls[j].op = "DetachNode"
    /\ \A i \in Idx : calls[i].op \in RemovalOps =>
         \E j \in 1..(i - 1) : calls[j].op = "DeauthoriseNode"
C1_Witness ==
  /\ ClusterMember /\ pc = "done" /\ exit = "ok"
  /\ "DetachNode" \in Ops(calls) /\ "DeauthoriseNode" \in Ops(calls)
  /\ RemoveHostagentRan

\* C2: a failed detach call is the last thing a DecommissionNode run does:
\* the run is fatal, no deauthorize call is issued and neither the agent
\* removal nor the local purge runs.
C2_FailedDetachAborts ==
  \A i \in Idx : (calls[i].op = "DetachNode" /\ calls[i].err) =>
    /\ i = Len(calls)
    /\ pc = "done" /\ exit = "fatal"
    /\ "DeauthoriseNode" \notin Ops(calls)
    /\ Ops(calls) \cap (RemovalOps \cup LocalPurgeOps) = {}
C2_Witness ==
  /\ prog = "decommission"
  /\ \E i \in Idx : calls[i].op = "DetachNode" /\ calls[i].err
  /\ msg = "Failed to detach host from cluster"

PresenceFailed ==
  /\ prog = "decommission"
  /\ \E i \in Idx : calls[i].op \in PresenceCmds /\ calls[i].err
NotConnectedMsg == "Host is not connected to Platform9 Management Plane"

\* C3 as stated: when the agent presence check fails the run makes no
\* control-plane call at all (authenticate, resolve host identity, node
\* info, detach, deauthorize), executes no removal command and ends
\* successfully with the "not connected" message.
C3_NoApiCallAtAll ==
  PresenceFailed =>
    /\ Ops(calls) \cap ControlPlaneOps = {}
    /\ Ops(calls) \cap (RemovalOps \cup LocalPurgeOps) = {}
    /\ pc = "done" /\ exit = "ok" /\ msg = NotConnectedMsg

\* C3 amended: when the agent presence check fails, the authenticate and
\* resolve-host-identity calls have already been made before the check, the
\* check is the last command of the run, no node info, detach or deauthorize
\* call and no removal command is ever issued, and the run ends successfully
\* with the "not connected" message.
C3_NoCallAfterFailedPresence ==
  PresenceFailed =>
    /\ calls[Len(calls)].op \in PresenceCmds
    /\ Ops(calls) \cap ControlPlaneOps = {"GetAuth", "GetHostId"}
    /\ Ops(calls) \cap (RemovalOps \cup LocalPurgeOps) = {}
    /\ pc = "done" /\ exit = "ok" /\ msg = NotConnectedMsg
C3_Witness == PresenceFailed /\ pc = "done"

UnresolvedWithAgent ==
  /\ prog = "decommission"
  /\ hostID = <<>>
  /\ \E i \in Idx : calls[i].op \in PresenceCmds /\ ~calls[i].err

\* C4: when no host identity was resolved and the presence check succeeded,
\* the run never calls detach or deauthorize, cannot end fatally, and by the
\* time removeHostagent is left every one of its commands has run.
C4_UnresolvedHostRemovedLocally ==
  UnresolvedWithAgent =>
    /\ "DetachNode" \notin Ops(calls)
    /\ "DeauthoriseNode" \notin Ops(calls)
    /\ pc \in {"d_nodeinfo", "d_remove", "d_purge", "d_rmfiles", "d_rmpf9",
               "d_sleep", "done"}
    /\ pc \in {"d_rmpf9", "d_sleep", "done"} => RemoveHostagentRan
    /\ pc = "done" => exit = "ok"
C4_Witness == UnresolvedWithAgent /\ pc = "done" /\ RemoveHostagentRan

InstallerOps == {"echo $HOME", "mkdir -p pf9", "curl -o installer.sh",
                 "chmod +x installer.sh", "installer.sh"}
CertlessDownloads == {DownloadCmd("certless", c) : c \in Configs}
LegacyDownloads == {DownloadCmd("legacy", c) : c \in Configs}

\* C5: in installHostAgent the installer function that runs is decided by
\* the status of the discovery probe alone: after a 200 only the certless
\* function runs, after a 404 only the legacy one, and after any other
\* status or a failed probe no installer command is issued and
\* installHostAgent returns an error.
C5_InstallerSelectedByStatus ==
  prog = "prep" =>
    /\ \A i \in Idx : calls[i].op = "curl -o installer.sh" =>
         \/ HostAgent = 200 /\ calls[i].s \in CertlessDownloads
         \/ HostAgent = 404 /\ calls[i].s \in LegacyDownloads
    /\ \A i \in Idx : calls[i].op = "installer.sh" =>
         \/ HostAgent = 200 /\ calls[i].s = "certless"
         \/ HostAgent = 404 /\ calls[i].s = "legacy"
    /\ (HostAgent = 200 /\ pc = "i_home") => variant = "certless"
    /\ (HostAgent = 404 /\ pc = "i_home") => variant = "legacy"
    /\ HostAgent \notin {200, 404} => Ops(calls) \cap InstallerOps = {}
    /\ HostAgent \notin {0, 200, 404} =>
         /\ pc \in {"p_defers", "done"}
         /\ ret.kind = "error"
         /\ ret.detail = "Invalid status code when identifiying hostagent type"
C5_Witness ==
  /\ prog = "prep" /\ HostAgent = 404
  /\ \E i \in Idx : calls[i].op = "installer.sh" /\ calls[i].s = "legacy"
C5_WitnessOther ==
  /\ prog = "prep" /\ HostAgent \notin {0, 200, 404} /\ pc = "done"

PackageProbeCmds == {PackageProbeCmd("debian"), PackageProbeCmd("redhat")}
PackageFound ==
  /\ prog = "prep"
  /\ \E i \in Idx : calls[i].op \in PackageProbeCmds /\ calls[i].s # ""

\* C6: once a package presence probe of PrepNode has printed something, the
\* run returns the "packages already present" error and issues no discovery
\* probe, installer download or execution, host id read or authorize call.
C6_PackagesPresentFailsFast ==
  PackageFound =>
    /\ pc \in {"p_defers", "done"}
    /\ ret.kind = "error" /\ ret.msg = AlreadyPresentMsg
    /\ pc = "done" => (exit = "error" /\ msg = AlreadyPresentMsg)
    /\ Ops(calls) \cap (InstallerOps \cup {"FetchRegionFQDN", "GET platform9-install",
                         "grep host_id /etc/pf9/host_id.conf", "AuthorizeHost"}) = {}
C6_Witness ==
  /\ PackageFound /\ pc = "done"
  /\ \E i \in Idx : calls[i].op \in PackageProbeCmds /\ calls[i].s = ""

AttachApiOps == {"GetAuth", "curl resmgr/v1/hosts", "CheckClusterExists",
                 "curl qbert/v3/clusters", "AttachNode"}
NothingToAttach == prog = "attach" /\ masterIPs = <<>> /\ workerIPs = <<>>

\* C7: an attach-node run given no master IP and no worker IP makes no
\* control-plane call (authenticate, host id lookup, cluster lookup, cluster
\* status, attach) and can only end fatally.
C7_NoNodesRejectedBeforeApi ==
  NothingToAttach =>
    /\ Ops(calls) \cap AttachApiOps = {}
    /\ pc \in {"a_config", "a_load", "a_executor", "a_client", "a_nodes", "done"}
    /\ pc = "done" => exit = "fatal"
C7_Witness ==
  /\ NothingToAttach /\ pc = "done"
  /\ msg = "No nodes were specified to be attached to the cluster"

LookupFailed ==
  /\ prog = "attach"
  /\ \E i \in Idx : calls[i].op = "curl resmgr/v1/hosts" /\ calls[i].err

\* C8: in an attach-node run, a host id lookup that finds nothing is the
\* last thing the run does: the run is fatal and no attach call is issued
\* for either role group, whatever was resolved before.
C8_UnresolvedIPAbortsRun ==
  \A i \in Idx : (prog = "attach" /\ calls[i].op = "curl resmgr/v1/hosts" /\ calls[i].err) =>
    /\ i = Len(calls)
    /\ pc = "done" /\ exit = "fatal"
    /\ "AttachNode" \notin Ops(calls)
C8_Witness ==
  /\ LookupFailed
  /\ Len(master_hostIds) > 0
  /\ \E i \in Idx : calls[i].op = "curl resmgr/v1/hosts" /\ ~calls[i].err

\* some call of op b is issued after the first call of op a
Later(a, b) ==
  \E i \in Idx : calls[i].op = b /\ First(calls, a) # 0 /\ i > First(calls, a)

\* C9: when PrepNode has returned (on any path), a stop of
\* unattended-upgrades issued during the run has been followed by a start,
\* and a disable by an enable.
C9_UnattendedUpgradesRestored ==
  (prog = "prep" /\ pc = "done") =>
    /\ "systemctl stop unattended-upgrades" \in Ops(calls) =>
         Later("systemctl stop unattended-upgrades", "systemctl start unattended-upgrades")
    /\ "systemctl disable unattended-upgrades" \in Ops(calls) =>
         Later("systemctl disable unattended-upgrades", "systemctl enable unattended-upgrades")
C9_Witness ==
  /\ prog = "prep" /\ pc = "done" /\ msg = "Dpkg is under lock"
  /\ "systemctl stop unattended-upgrades" \in Ops(calls)
  /\ "systemctl disable unattended-upgrades" \in Ops(calls)

CleanupOps == {removeTempDirAndInstaller[i].op : i \in 1..Len(removeTempDirAndInstaller)}
InstallerInvoked == prog = "prep" /\ "installer.sh" \in Ops(calls)

\* C10: in both installer functions, once the installer script has been
\* invoked and the function is past its cleanup call, the three removals
\* (pf9-install-*, installer.sh, agent_install) have been issued after the
\* invocation, in the directory the installer was downloaded to, whatever
\* the exit code of the script.
C10_InstallerArtifactsRemoved ==
  (InstallerInvoked /\ pc # "i_cleanup") =>
    /\ \A op \in CleanupOps : Later("installer.sh", op)
    /\ homeDir = localHome /\ homeDir # <<>>
C10_Witness ==
  /\ InstallerInvoked /\ pc = "done" /\ variant = "legacy"
  /\ \E i \in Idx : calls[i].op = "installer.sh" /\ calls[i].err
C10_WitnessCertlessOk ==
  /\ InstallerInvoked /\ pc = "done" /\ variant = "certless" /\ installErr = 0

\* C11: when the installer exits non-zero, the cause that is reported is the
\* table's message for an exit code of the installer-error table and a
\* non-empty generic message for any other exit code.
C11_InstallerErrorTranslated ==
  \A i \in Idx : calls[i].op = "Error :" =>
    /\ calls[i].n \in DOMAIN InstallerErrors => calls[i].s = InstallerErrors[calls[i].n]
    /\ calls[i].n \notin DOMAIN InstallerErrors => calls[i].s # ""

HostIdCmd == "grep host_id /etc/pf9/host_id.conf"
FetchHostIdMsg == "Error: Unable to fetch host ID."

\* C12: when the read of the host id configuration fails or yields only
\* white space, PrepNode returns the "unable to fetch host ID" error and never
\* calls authorize, both when the command errors and when it succeeds with
\* empty output.
C12_HostIdFailureReturnsError ==
  \A i \in Idx :
    (prog = "prep" /\ calls[i].op = HostIdCmd /\ (calls[i].err \/ calls[i].n = 0)) =>
      /\ pc \in {"p_defers", "done"}
      /\ ret.kind = "error" /\ ret.msg = FetchHostIdMsg
      /\ "AuthorizeHost" \notin Ops(calls)

HostIdExtracted ==
  /\ prog = "prep"
  /\ \E i \in Idx : calls[i].op = HostIdCmd /\ ~calls[i].err /\ calls[i].n > 0

\* C13: with util.SkipKube set, once the installation and the host id
\* extraction have succeeded PrepNode returns success and neither sleeps the
\* wait period nor calls authorize.
C13_SkipKubeSkipsAuthorize ==
  (HostIdExtracted /\ SkipKube) =>
    /\ "AuthorizeHost" \notin Ops(calls)
    /\ "Sleep" \notin Ops(calls)
    /\ pc \in {"p_skip", "p_defers", "done"}
    /\ pc # "p_skip" => ret.kind = "ok"
    /\ pc = "done" => exit = "ok"
C13_Witness ==
  /\ HostIdExtracted /\ SkipKube /\ pc = "done" /\ exit = "ok"
  /\ "installer.sh" \in Ops(calls)

DpkgLockHeld ==
  /\ prog = "prep"
  /\ \E i \in Idx : calls[i].op = "CheckIfdpkgISLock" /\ calls[i].err

\* C14: on a debian host, when the dpkg lock check reports the lock held,
\* PrepNode returns the "Dpkg is under lock" error: it checks the lock once,
\* never sleeps, and no package presence probe, download or installer
\* execution follows.
C14_DpkgLockAborts ==
  DpkgLockHeld =>
    /\ hostOS = "debian"
    /\ Count(calls, "CheckIfdpkgISLock") = 1
    /\ "Sleep" \notin Ops(calls)
    /\ Ops(calls) \cap (PackageProbeCmds \cup InstallerOps
                          \cup {"FetchRegionFQDN", "GET platform9-install"}) = {}
    /\ pc \in {"p_ua_status", "p_ua_stop", "p_ua_isenabled", "p_ua_disable",
               "p_lock", "p_defers", "done"}
    /\ pc \in {"p_defers", "done"} => (ret.kind = "error" /\ ret.msg = "Dpkg is under lock")
    /\ pc = "done" => (exit = "error" /\ msg = "Dpkg is under lock")
C14_Witness ==
  /\ DpkgLockHeld /\ pc = "done"
  /\ "systemctl stop unattended-upgrades" \notin Ops(calls)

AttachCalls(role) == {i \in Idx : calls[i].op = "AttachNode" /\ calls[i].s = role}
ClusterReady == clusterStatus = <<"ok">>
BothResolvedReady ==
  /\ prog = "attach" /\ ClusterReady
  /\ Len(worker_hostIds) > 0 /\ Len(master_hostIds) > 0

\* C15: in an attach-node run with worker and master host ids resolved and
\* the cluster ready, the run never ends fatally: the worker attach call is
\* issued, then the master attach call whatever the worker call returned,
\* and the run ends normally whatever either call returned.
C15_RoleGroupsIndependent ==
  BothResolvedReady =>
    /\ pc \in {"a_attach_workers", "a_attach_masters", "done"}
    /\ pc \in {"a_attach_masters", "done"} => Cardinality(AttachCalls("worker")) = 1
    /\ pc = "done" =>
         /\ exit = "ok"
         /\ Cardinality(AttachCalls("master")) = 1
         /\ \A w \in AttachCalls("worker"), m \in AttachCalls("master") : w < m
C15_Witness ==
  /\ BothResolvedReady /\ pc = "done"
  /\ \E w \in AttachCalls("worker") : calls[w].err
  /\ \E m \in AttachCalls("master") : ~calls[m].err

\* C16: in an attach-node run an attach call is issued only after the
\* cluster lookup has confirmed that the cluster exists and the status query
\* has returned "ok"; a run whose status query returned anything else is
\* fatal with no attach call; there is at most one attach call per role
\* group and the worker call precedes the master call.
C16_AttachOnlyToExistingReadyCluster ==
  prog = "attach" =>
    /\ \A i \in Idx : calls[i].op = "AttachNode" =>
         /\ \E j \in 1..(i - 1) : calls[j].op = "CheckClusterExists" /\ ~calls[j].err
         /\ ClusterReady
    /\ (\E i \in Idx : calls[i].op = "curl qbert/v3/clusters") /\ ~ClusterReady =>
         (pc = "done" /\ exit = "fatal" /\ "AttachNode" \notin Ops(calls))
    /\ Cardinality(AttachCalls("worker")) <= 1
    /\ Cardinality(AttachCalls("master")) <= 1
    /\ \A w \in AttachCalls("worker"), m \in AttachCalls("master") : w < m
(* ---------- platform detection ---------- *)
Detections == Count(calls, "ValidatePlatform")
\* the commands whose text depends on the platform descriptor
PlatformDependentOps ==
  PresenceCmds \cup {PurgeCmd("debian"), PurgeCmd("redhat")}
    \cup {"CheckIfdpkgISLock"} \cup PackageProbeCmds \cup {"curl -o installer.sh"}
DetectedBefore(i) ==
  \E j \in 1..(i - 1) : calls[j].op = "ValidatePlatform" /\ ~calls[j].err
RunSucceeded == pc = "done" /\ exit = "ok"

\* C17 (as stated): every orchestrator (prep-node, decommission, attach-node)
\* calls the platform detector exactly once per run: never more than once,
\* once in every run that succeeded, and before each step that depends on
\* the platform.
C17_EveryOrchestratorDetectsOnce ==
  /\ Detections <= 1
  /\ RunSucceeded => Detections = 1
  /\ \A i \in Idx : calls[i].op \in PlatformDependentOps => DetectedBefore(i)

\* C17 (amended): PrepNode and DecommissionNode call the platform detector
\* at most once per run, exactly once in a run that succeeded, and before
\* each command that depends on the platform; attachNodeRun, which has no
\* platform-dependent command, never calls it.
C17_PrepAndDecommissionDetectOnce ==
  /\ Detections <= 1
  /\ prog \in {"prep", "decommission"} /\ RunSucceeded => Detections = 1
  /\ \A i \in Idx : calls[i].op \in PlatformDependentOps => DetectedBefore(i)
  /\ prog = "attach" =>
       Detections = 0 /\ Ops(calls) \cap PlatformDependentOps = {}
C17_Witness ==
  /\ prog = "decommission" /\ RunSucceeded
  /\ Detections = 1
  /\ Ops(calls) \cap PresenceCmds # {}
  /\ RemoveHostagentRan
C17_WitnessAttach ==
  /\ prog = "attach" /\ RunSucceeded
  /\ "AttachNode" \in Ops(calls)

\* C18: ValidatePlatform returns an error both when the release metadata
\* cannot be read and when it matches no known OS family; no call returns a
\* non-error result for metadata that matches no family.
C18_DetectFailsOnUnknownFamily ==
  \A i \in Idx :
    (calls[i].op = "ValidatePlatform" /\ calls[i].s \in {"unreadable", "none"})
      => calls[i].err

\* detection returned without error and left an empty platform descriptor
UnknownFamilyDetected ==
  /\ hostOS = ""
  /\ \E i \in Idx : calls[i].op = "ValidatePlatform" /\ ~calls[i].err
PrepActionOps == PackageProbeCmds \cup {"curl -o installer.sh", "installer.sh"}
DecommissionActionOps == PresenceCmds \cup {"DeauthoriseNode"} \cup RemovalOps

\* C19: when platform detection yields the unknown family (no marker
\* matched, or the version query of the family failed), PrepNode performs no
\* package check, download or installer execution, and DecommissionNode
\* performs no package query, deauthorize or removal.
C19_UnknownFamilyTakesNoAction ==
  UnknownFamilyDetected =>
    /\ prog = "prep" => Ops(calls) \cap PrepActionOps = {}
    /\ prog = "decommission" => Ops(calls) \cap DecommissionActionOps = {}

(* ---------- preflight aborts of PrepNode ---------- *)
PreflightErrors == {"Error: Invalid host OS.", "Dpkg is under lock", AlreadyPresentMsg}
PreflightAbort ==
  prog = "prep" /\ pc \in {"p_defers", "done"} /\ ret.msg \in PreflightErrors
ServiceStopOps == {"systemctl stop unattended-upgrades",
                   "systemctl disable unattended-upgrades"}
InstallMutatingOps == {"mkdir -p pf9", "curl -o installer.sh",
                       "chmod +x installer.sh", "installer.sh"}
MutatingOps == ServiceStopOps \cup InstallMutatingOps

\* C20 (as stated): whenever PrepNode aborts on a detection or preflight
\* error (invalid platform, dpkg lock held, packages already present), no
\* mutating command (service stop/disable, directory creation, download,
\* install) has been executed before the abort.
C20_PreflightAbortNoMutation ==
  PreflightAbort => Ops(calls) \cap MutatingOps = {}

\* C20 (amended): on such an abort no directory creation, download or
\* install command has been executed; on an invalid platform and on a host
\* that is not debian no mutating command at all; on a debian host the only
\* mutating commands are the stop and disable of unattended-upgrades, each
\* undone by a start or enable once PrepNode has returned.
C20_PreflightAbortOnlyServiceStop ==
  PreflightAbort =>
    /\ Ops(calls) \cap InstallMutatingOps = {}
    /\ (ret.msg = "Error: Invalid host OS." \/ hostOS # "debian") =>
         Ops(calls) \cap MutatingOps = {}
    /\ pc = "done" =>
         /\ Count(calls, "systemctl stop unattended-upgrades")
              = Count(calls, "systemctl start unattended-upgrades")
         /\ Count(calls, "systemctl disable unattended-upgrades")
              = Count(calls, "systemctl enable unattended-upgrades")
C20_Witness ==
  /\ PreflightAbort /\ pc = "done" /\ ret.msg = AlreadyPresentMsg
  /\ "systemctl stop unattended-upgrades" \in Ops(calls)
  /\ Ops(calls) \cap PackageProbeCmds # {}

(* ---------- installer step: cleanup on every exit ---------- *)
DownloadStarted == prog = "prep" /\ "curl -o installer.sh" \in Ops(calls)
InsideInstallerStep == pc \in {"i_home", "i_curl", "i_chmod", "i_run", "i_cleanup"}

\* C21: on every exit path of the installer step after the working directory
\* was created and the download started (download failure, chmod failure,
\* installer failure, installer success), the three removals of the
\* transient installer artifacts have been issued before the step returns.
C21_CleanupOnEveryInstallerExit ==
  (DownloadStarted /\ ~InsideInstallerStep) =>
    \A op \in CleanupOps : Later("curl -o installer.sh", op)

(* ---------- removeHostagent ---------- *)
\* the commands of removeHostagent that the run has issued so far
IsRemovalEvent(e) == e.op \in RemovalOps
RemovalTrace == SelectSeq(calls, IsRemovalEvent)
\* the commands of a whole removeHostagent call on platform os, in order
ExpectedRemoval(os) ==
  [i \in 1..(Len(services) + 1 + NumFiles) |->
     IF i <= Len(services) THEN [op |-> "systemctl stop", n |-> i]
     ELSE IF i = Len(services) + 1 THEN [op |-> PurgeCmd(os), n |-> 0]
     ELSE [op |-> "rm -rf file", n |-> i - Len(services) - 1]]
RemovalInProgress == pc \in {"d_remove", "d_purge", "d_rmfiles"}

\* C22: once removeHostagent has started, its commands are a prefix of: a
\* stop of each of the three services in order, the purge with apt-get on
\* debian and yum otherwise, the deletion of every file of the list; the
\* call is left only when that sequence is complete, and inside the call the
\* next command can always be issued, whatever stop or purge failed.
C22_RemoveHostagentRunsToCompletion ==
  prog = "decommission" =>
    LET t == RemovalTrace
        e == ExpectedRemoval(hostOS) IN
    /\ Len(t) <= Len(e)
    /\ \A i \in 1..Len(t) : t[i].op = e[i].op /\ t[i].n = e[i].n
    /\ (t # <<>> /\ Len(t) < Len(e)) => RemovalInProgress
    /\ RemovalInProgress =>
         ENABLED (RemoveStopService \/ RemovePurge \/ RemoveFile)
    /\ \A i \in 1..Len(t) :
         /\ t[i].op = PurgeCmd("debian") => hostOS = "debian"
         /\ t[i].op = PurgeCmd("redhat") => hostOS # "debian"
C22_Witness ==
  /\ prog = "decommission" /\ pc = "done"
  /\ Len(RemovalTrace) = Len(services) + 1 + NumFiles
  /\ \E i \in Idx : calls[i].op = "systemctl stop" /\ calls[i].n = 1 /\ calls[i].err
  /\ \E i \in Idx : calls[i].op = PurgeCmd("debian") /\ calls[i].err
  /\ \E i \in Idx : calls[i].op = "rm -rf file" /\ calls[i].n = NumFiles

(* ---------- failed deauthorize ---------- *)
DeauthFailed ==
  /\ prog = "decommission"
  /\ \E i \in Idx : calls[i].op = "DeauthoriseNode" /\ calls[i].err

\* C23: in DecommissionNode, with or without a cluster in the node info, a
\* failed deauthorize call ends the run as fatal: the failed call is the last
\* thing the run did, and no agent-removal command, no purge of the
\* configuration directories and no settle delay is in the run.
C23_FailedDeauthIsFatal ==
  DeauthFailed =>
    /\ pc = "done" /\ exit = "fatal" /\ msg = "Failed to deauthorize node"
    /\ calls[Len(calls)].op = "DeauthoriseNode" /\ calls[Len(calls)].err
    /\ Ops(calls) \cap (RemovalOps \cup LocalPurgeOps \cup {"Sleep"}) = {}
C23_Witness ==
  /\ DeauthFailed /\ nodeInfo.ClusterName # "" /\ removePf9
  /\ \E i \in Idx : calls[i].op = "DetachNode" /\ ~calls[i].err
C23_WitnessStandalone ==
  /\ DeauthFailed /\ nodeInfo.ClusterName = "" /\ nodeConnectedToDU /\ removePf9
  /\ "DetachNode" \notin Ops(calls)

(* ---------- failed authentication ---------- *)
AuthFailedAt(i) == calls[i].op = "GetAuth" /\ calls[i].err
AuthFailed == \E i \in Idx : AuthFailedAt(i)
\* the step that follows GetAuth in DecommissionNode and in attachNodeRun
AfterAuthOps == {"hostname -I", "curl resmgr/v1/hosts"}

\* C24: in DecommissionNode and in attachNodeRun a failed GetAuth does not
\* end the run: the run is never finished with the failed call as its last
\* step, the step after it is the one that follows a successful call (the
\* host IP query, the host id lookups), and the token and project id that
\* every later call reads are the empty ones.
C24_AuthFailureNotFatal ==
  prog \in {"decommission", "attach"} =>
    \A i \in Idx : AuthFailedAt(i) =>
      /\ auth = NoAuth
      /\ i = Len(calls) => pc \in {"d_ip", "a_masters", "a_workers"}
      /\ i < Len(calls) => calls[i + 1].op \in AfterAuthOps
C24_Witness ==
  /\ prog = "decommission" /\ AuthFailed /\ auth.Token = ""
  /\ "GetHostId" \in Ops(calls)
  /\ \E i \in Idx : calls[i].op = "DeauthoriseNode" /\ ~calls[i].err
  /\ pc = "done" /\ exit = "ok"
C24_WitnessAttach ==
  /\ prog = "attach" /\ AuthFailed /\ auth.ProjectID = ""
  /\ "curl resmgr/v1/hosts" \in Ops(calls)
  /\ "AttachNode" \in Ops(calls)
  /\ pc = "done" /\ exit = "ok"

(* ---------- hostID[0] ---------- *)
\* the calls of DecommissionNode that take hostID[0] as an argument
HostIdZeroOps == {"GetNodeInfo", "DetachNode", "DeauthoriseNode"}

\* C25: in DecommissionNode the node info names a cluster only when the
\* resolved hostID list is not empty, the run is at the detach or the
\* deauthorize call only with a non-empty list, and every call that takes
\* hostID[0] (node info, detach, deauthorize) was made with a non-empty list.
C25_HostIdZeroOnlyWhenResolved ==
  prog = "decommission" =>
    /\ nodeInfo.ClusterName # "" => Len(hostID) > 0
    /\ pc \in {"d_detach", "d_deauth"} => Len(hostID) > 0 /\ nodeConnectedToDU
    /\ Ops(calls) \cap HostIdZeroOps # {} => Len(hostID) > 0
    /\ \A i \in Idx : calls[i].op \in {"DetachNode", "DeauthoriseNode"} =>
         calls[i].n > 0
C25_Witness ==
  /\ prog = "decommission" /\ nodeInfo.ClusterName # "" /\ Len(hostID) > 0
  /\ \E i \in Idx : calls[i].op = "DetachNode" /\ calls[i].n = Len(hostID)
  /\ \E i \in Idx : calls[i].op = "DeauthoriseNode" /\ calls[i].n = Len(hostID)
C25_WitnessUnresolved ==
  /\ prog = "decommission" /\ hostID = <<>> /\ pc = "done" /\ exit = "ok"
  /\ Len(RemovalTrace) > 0
  /\ Ops(calls) \cap HostIdZeroOps = {}

(* ---------- success of PrepNode ---------- *)
\* PrepNode has executed `return nil`, or has returned it to its caller
PrepSucceeded ==
  /\ prog = "prep"
  /\ \/ pc = "p_defers" /\ ret.kind = "ok"
     \/ pc = "done" /\ exit = "ok"
AuthorizedOnce ==
  /\ Count(calls, "AuthorizeHost") = 1
  /\ Count(calls, "Sleep") = 1
  /\ First(calls, "Sleep") < First(calls, "AuthorizeHost")
  /\ First(calls, HostIdCmd) < First(calls, "Sleep")
  /\ LET a == calls[First(calls, "AuthorizeHost")] IN
       ~a.err /\ a.n = Len(output)

\* C26: PrepNode returns success only when the discovery probe answered 200
\* or 404 (and the package level HostAgent holds that status), the installer
\* exited with 0, a non-empty host ID was read, and either SkipKube is set
\* (and no authorize call was made) or AuthorizeHost was called exactly
\* once, after the sleep, with the host ID that was read, and succeeded.
C26_SuccessOnlyAfterAllSteps ==
  PrepSucceeded =>
    /\ HostAgent \in {HostAgentCertless, HostAgentLegacy}
    /\ \E i \in Idx : calls[i].op = "GET platform9-install" /\ ~calls[i].err
                       /\ calls[i].n = HostAgent
    /\ Count(calls, "installer.sh") = 1
    /\ \E i \in Idx : calls[i].op = "installer.sh" /\ calls[i].n = 0
    /\ installErr = 0
    /\ output # <<>>
    /\ \E i \in Idx : calls[i].op = HostIdCmd /\ ~calls[i].err /\ calls[i].n > 0
    /\ IF SkipKube THEN "AuthorizeHost" \notin Ops(calls) ELSE AuthorizedOnce
C26_Witness ==
  /\ PrepSucceeded /\ pc = "done" /\ ~SkipKube
  /\ HostAgent = HostAgentLegacy
  /\ "AuthorizeHost" \in Ops(calls)
C26_WitnessSkip ==
  /\ PrepSucceeded /\ pc = "done" /\ SkipKube
  /\ HostAgent = HostAgentCertless /\ output # <<>>
====
